---- MODULE Spec2Model ----
(***************************************************************************)
(* Model of the tauri-gdal-template build script (src-tauri/build.rs) and  *)
(* of the get_dataset_info command (src-tauri/src/lib.rs).                 *)
(*                                                                         *)
(* Strings and paths are sequences of tokens (a token is a short run of    *)
(* characters such as "/", "usr", ".", "so"), so that format!, trim,       *)
(* starts_with, contains, extension, join, parent and glob matching are    *)
(* computed on the text as the code computes them.  The filesystem is a    *)
(* function from the paths that exist to what they hold: <<"dir">> for a   *)
(* directory, <<"bytes", b>> or <<"raster", ...>> for a regular file.      *)
(***************************************************************************)
EXTENDS Naturals, Sequences, FiniteSets, TLC

VARIABLES
    pc,         \* position of the running program
    windows,    \* cfg!(target_os = "windows")
    env,        \* process environment: variable name -> value
    fs,         \* filesystem: existing path -> what it holds
    pkgConfig,  \* what running `pkg-config --variable=prefix gdal` gives
    spackCmd,   \* what running `spack location -i gdal` gives
    out,        \* lines printed to stdout (cargo directives and warnings)
    calls,      \* log of the calls made, in order
    entries,    \* copy_gdal_libraries: directory entries not yet visited
    ret         \* get_dataset_info: the last returned Result

vars == <<pc, windows, env, fs, pkgConfig, spackCmd, out, calls, entries, ret>>

----------------------------------------------------------------------------
(* Option<T> *)
None == [some |-> FALSE]
Some(v) == [some |-> TRUE, val |-> v]

(* env::var(name) *)
EnvVar(e, name) == IF name \in DOMAIN e THEN Some(e[name]) ELSE None

(* env::set_var(name, value) *)
SetVar(e, name, value) ==
    [n \in DOMAIN e \cup {name} |-> IF n = name THEN value ELSE e[n]]

----------------------------------------------------------------------------
(* Text *)

\* str::starts_with
StartsWith(s, n) == Len(n) <= Len(s) /\ SubSeq(s, 1, Len(n)) = n

\* str::contains
Contains(s, n) ==
    \E i \in 1..(Len(s) + 1) :
        i + Len(n) - 1 <= Len(s) /\ SubSeq(s, i, i + Len(n) - 1) = n

Whitespace == {"\n", " "}

\* str::trim
RECURSIVE Trim(_)
Trim(s) ==
    IF s = <<>> THEN s
    ELSE IF Head(s) \in Whitespace THEN Trim(Tail(s))
    ELSE IF s[Len(s)] \in Whitespace THEN Trim(SubSeq(s, 1, Len(s) - 1))
    ELSE s

\* positions of token t in s
Positions(s, t) == {i \in 1..Len(s) : s[i] = t}

Max(S) == CHOOSE m \in S : \A x \in S : x <= m

IsSep(t) == t \in {"/", "\\"}

\* Path::file_name: the text after the last separator
FileName(p) ==
    LET seps == {i \in 1..Len(p) : IsSep(p[i])}
    IN  IF seps = {} THEN p ELSE SubSeq(p, Max(seps) + 1, Len(p))

\* Path::parent: the path without its last component
Parent(p) ==
    LET seps == {i \in 1..Len(p) : IsSep(p[i])}
    IN  IF seps = {} THEN None ELSE Some(SubSeq(p, 1, Max(seps) - 1))

\* Path::extension: the text after the last "." of the file name; none when the
\* name has no "." or only a leading one
Extension(p) ==
    LET name == FileName(p)
        dots == Positions(name, ".")
    IN  IF dots = {} \/ Max(dots) = 1 THEN None
        ELSE Some(SubSeq(name, Max(dots) + 1, Len(name)))

\* Path::join with the separator "/"
Join(dir, name) == dir \o <<"/">> \o name

\* glob::Pattern::matches: "*" matches any run of tokens without a separator
RECURSIVE GlobMatch(_, _)
GlobMatch(pat, p) ==
    IF pat = <<>> THEN p = <<>>
    ELSE IF Head(pat) = "*"
         THEN GlobMatch(Tail(pat), p)
              \/ (p # <<>> /\ ~IsSep(Head(p)) /\ GlobMatch(pat, Tail(p)))
         ELSE p # <<>> /\ Head(p) = Head(pat) /\ GlobMatch(Tail(pat), Tail(p))

\* byte order of the tokens that tell two glob results apart
TokenOrder == <<"3.1.0", "3.10.3", "dev", "gdal">>
Rank(t) == IF \E i \in 1..Len(TokenOrder) : TokenOrder[i] = t
           THEN CHOOSE i \in 1..Len(TokenOrder) : TokenOrder[i] = t
           ELSE 0

\* a < b in byte order (the two differ first at tokens TokenOrder ranks)
RECURSIVE Before(_, _)
Before(a, b) ==
    IF a = <<>> THEN b # <<>>
    ELSE IF b = <<>> THEN FALSE
    ELSE IF Head(a) = Head(b) THEN Before(Tail(a), Tail(b))
    ELSE Rank(Head(a)) < Rank(Head(b))

\* the first element of S in alphabetical order
Least(S) == CHOOSE x \in S : \A y \in S : x = y \/ Before(x, y)

\* every order in which the elements of S can be listed
RECURSIVE Orders(_)
Orders(S) ==
    IF S = {} THEN {<<>>}
    ELSE UNION {{<<x>> \o o : o \in Orders(S \ {x})} : x \in S}

----------------------------------------------------------------------------
(* Filesystem *)

\* Path::exists
Exists(f, p) == p \in DOMAIN f

\* Path::is_dir
IsDir(f, p) == p \in DOMAIN f /\ f[p][1] = "dir"

\* the entries fs::read_dir(dir) lists, as paths
Children(f, dir) ==
    {p \in DOMAIN f : /\ Len(p) > Len(dir) + 1
                      /\ SubSeq(p, 1, Len(dir)) = dir
                      /\ IsSep(p[Len(dir) + 1])
                      /\ \A i \in (Len(dir) + 2)..Len(p) : ~IsSep(p[i])}

\* glob::glob(pattern): the existing paths the pattern matches; the iterator
\* yields them in alphabetical order
Glob(f, pattern) == {p \in DOMAIN f : GlobMatch(pattern, p)}

\* the filesystem after a successful fs::copy(src, dst)
CopyFile(f, src, dst) ==
    [p \in DOMAIN f \cup {dst} |-> IF p = dst THEN f[src] ELSE f[p]]

\* whether fs::copy(src, dst) can succeed at all: src is a regular file
Copyable(f, src) == Exists(f, src) /\ f[src][1] # "dir"

\* the filesystem holding exactly the <<path, content>> pairs
MkFs(pairs) ==
    [p \in {x[1] : x \in pairs} |-> (CHOOSE x \in pairs : x[1] = p)[2]]

----------------------------------------------------------------------------
(* Subprocesses: Command::output() *)
SpawnFailed == [spawned |-> FALSE, success |-> FALSE, stdout |-> <<>>]
Ran(success, stdout) == [spawned |-> TRUE, success |-> success, stdout |-> stdout]

\* the path a prefix query yields: spawned, exit status 0, and the trimmed
\* stdout is non-empty and exists
QueryPath(cmd, f) ==
    IF cmd.spawned /\ cmd.success
       /\ Trim(cmd.stdout) # <<>> /\ Exists(f, Trim(cmd.stdout))
    THEN Some(Trim(cmd.stdout))
    ELSE None

----------------------------------------------------------------------------
(* Output lines *)
Warning2(a, b) == <<"cargo:warning", a, b>>
Warning1(a) == <<"cargo:warning", a>>

(* configure_gdal_paths *)

\* ConfigureGdalPathsOut without the second search path of a pixi root
ConfigureGdalPathsOutOnce(win, gdal_root, lib_dir, include_dir, gdal_lib_file) ==
    << <<"cargo:rustc-env", "GDAL_ROOT", gdal_root>>,
       <<"cargo:rustc-env", "GDAL_HOME", gdal_root>>,
       <<"cargo:rustc-env", "GDAL_LIB_DIR", lib_dir>>,
       <<"cargo:rustc-env", "GDAL_INCLUDE_DIR", include_dir>>,
       <<"cargo:rustc-link-search", "native", lib_dir>>,
       IF win THEN <<"cargo:rustc-link-lib", "dylib", "gdal_i">>
              ELSE <<"cargo:rustc-link-lib", "", "gdal">>,
       <<"cargo:rustc-link-arg", gdal_lib_file>> >>

\* the lines configure_gdal_paths prints
ConfigureGdalPathsOut(win, gdal_root, lib_dir, include_dir, gdal_lib_file) ==
    << <<"cargo:rustc-env", "GDAL_ROOT", gdal_root>>,
       <<"cargo:rustc-env", "GDAL_HOME", gdal_root>>,
       <<"cargo:rustc-env", "GDAL_LIB_DIR", lib_dir>>,
       <<"cargo:rustc-env", "GDAL_INCLUDE_DIR", include_dir>>,
       <<"cargo:rustc-link-search", "native", lib_dir>>,
       IF win THEN <<"cargo:rustc-link-lib", "dylib", "gdal_i">>
              ELSE <<"cargo:rustc-link-lib", "", "gdal">>,
       <<"cargo:rustc-link-arg", gdal_lib_file>> >>
    \o (IF Contains(gdal_root, <<"pixi">>)
        THEN << <<"cargo:rustc-link-search", "native", lib_dir>> >>
        ELSE <<>>)

\* the process environment after configure_gdal_paths
ConfigureGdalPathsEnv(e, gdal_root, lib_dir, include_dir) ==
    SetVar(SetVar(SetVar(SetVar(e, "GDAL_ROOT", gdal_root),
                         "GDAL_HOME", gdal_root),
                  "GDAL_LIB_DIR", lib_dir),
           "GDAL_INCLUDE_DIR", include_dir)

\* the call, with its effects on env, out and calls; before holds the calls
\* logged ahead of it in the same step
ConfigureGdalPaths(before, lines, gdal_root, lib_dir, include_dir, gdal_lib_file) ==
    /\ env' = ConfigureGdalPathsEnv(env, gdal_root, lib_dir, include_dir)
    /\ out' = out \o lines
              \o ConfigureGdalPathsOut(windows, gdal_root, lib_dir,
                                       include_dir, gdal_lib_file)
    /\ calls' = calls \o before
                \o << <<"configure_gdal_paths", gdal_root, lib_dir,
                        include_dir, gdal_lib_file>> >>

----------------------------------------------------------------------------
(* main *)
DebugVars == <<"GDAL_NO_PKG_CONFIG", "GDAL_DYNAMIC", "GDAL_STATIC", "GDAL_VERSION">>

Main ==
    /\ pc = "main"
    /\ out' = out \o << <<"cargo:rerun-if-changed", "build.rs">> >>
              \o [i \in 1..Len(DebugVars) |->
                    Warning2(DebugVars[i], EnvVar(env, DebugVars[i]))]
    /\ pc' = IF windows THEN "configure_windows_gdal" ELSE "configure_linux_gdal"
    /\ UNCHANGED <<windows, env, fs, pkgConfig, spackCmd, calls, entries, ret>>

----------------------------------------------------------------------------
(* configure_linux_gdal *)
LibSuffix == <<"/", "lib">>
IncludeSuffix == <<"/", "include">>
LibGdalSo == <<"/", "lib", "/", "libgdal", ".", "so">>

Usr == <<"/", "usr">>
UsrLocal == <<"/", "usr", "/", "local">>
OptGdal == <<"/", "opt", "/", "gdal">>
CommonPaths == <<Usr, UsrLocal, OptGdal>>

\* LibraryFound without the existence check: any root a strategy yields is
\* accepted
LibraryFoundUnchecked(gdal_root, f) == TRUE

\* the `if Path::new(&gdal_lib_file).exists()` that accepts a strategy's root
LibraryFound(gdal_root, f) == Exists(f, gdal_root \o LibGdalSo)

\* find_system_gdal_path
FindSystemGdalPath(cmd, f) ==
    IF QueryPath(cmd, f).some THEN QueryPath(cmd, f)
    ELSE LET hits == {i \in 1..Len(CommonPaths) :
                         Exists(f, CommonPaths[i] \o LibGdalSo)}
         IN  IF hits = {} THEN None
             ELSE Some(CommonPaths[CHOOSE i \in hits : \A j \in hits : i <= j])

PixiEnvsDir(home) == home \o <<"/", ".", "pixi", "/", "envs">>
GdalInfoOf(envRoot) == Join(Join(envRoot, <<"bin">>), <<"gdalinfo">>)
PixiPattern(home) == home \o <<"/", ".", "pixi", "/", "envs", "/", "*", "/",
                               "bin", "/", "gdalinfo">>

\* what fs::read_dir can give for dir: an error, or its entries in any order
ReadDir(f, dir) ==
    IF IsDir(f, dir) THEN {None} \cup {Some(o) : o \in Orders(Children(f, dir))}
    ELSE {None}

\* PixiVisited going on past an environment that has bin/gdalinfo but not
\* lib/libgdal.so
PixiVisitedUntilLibrary(listing, f) ==
    LET hits == {i \in 1..Len(listing) :
                    /\ Exists(f, GdalInfoOf(listing[i]))
                    /\ Exists(f, listing[i] \o LibGdalSo)}
    IN  IF hits = {} THEN listing
        ELSE SubSeq(listing, 1, CHOOSE i \in hits : \A j \in hits : i <= j)

\* the entries `for entry in entries.flatten()` visits before it returns at
\* the first one that has bin/gdalinfo
PixiVisited(listing, f) ==
    LET hits == {i \in 1..Len(listing) : Exists(f, GdalInfoOf(listing[i]))}
    IN  IF hits = {} THEN listing
        ELSE SubSeq(listing, 1, CHOOSE i \in hits : \A j \in hits : i <= j)

\* the directory scan of find_pixi_gdal_path; listing is read_dir's result
PixiScan(listing, f) ==
    IF listing.some /\ listing.val # <<>>
       /\ Exists(f, GdalInfoOf(PixiVisited(listing.val, f)[Len(PixiVisited(listing.val, f))]))
    THEN Some(PixiVisited(listing.val, f)[Len(PixiVisited(listing.val, f))])
    ELSE None

\* `gdalinfo_path.parent().and_then(|p| p.parent())`
EnvRootOf(gdalinfo_path) ==
    IF Parent(gdalinfo_path).some THEN Parent(Parent(gdalinfo_path).val) ELSE None

\* the glob fallback of find_pixi_gdal_path: the root of the first match, in
\* glob's order, that exists and has a grandparent
PixiGlob(home, f) ==
    LET ok == {p \in Glob(f, PixiPattern(home)) :
                  Exists(f, p) /\ EnvRootOf(p).some}
    IN  IF ok = {} THEN None
        ELSE CHOOSE root \in {EnvRootOf(p) : p \in {Least(ok)}} : TRUE

\* find_pixi_gdal_path; listing is None when the envs directory does not
\* exist or read_dir failed
FindPixiGdalPath(home, f, listing) ==
    IF Exists(f, PixiEnvsDir(home)) /\ PixiScan(listing, f).some
    THEN PixiScan(listing, f)
    ELSE PixiGlob(home, f)

SpackRoot(home) == home \o <<"/", "spack">>
SpackPatterns(home) ==
    << home \o <<"/", "spack", "/", "opt", "/", "spack", "/", "linux", "-", "*",
                 "/", "gcc", "-", "*", "/", "gdal", "-", "3.10.3", "-", "*">>,
       home \o <<"/", "spack", "/", "opt", "/", "spack", "/", "linux", "-", "*",
                 "/", "gcc", "-", "*", "/", "gdal", "-", "*">> >>

\* the directories among the matches of the i-th pattern
SpackDirs(home, f, i) == {p \in Glob(f, SpackPatterns(home)[i]) : IsDir(f, p)}

\* the glob fallback of find_spack_gdal_path: the first directory, in glob's
\* order, among the matches of the first pattern that has one
SpackGlob(home, f) ==
    IF SpackDirs(home, f, 1) # {} THEN Some(Least(SpackDirs(home, f, 1)))
    ELSE IF SpackDirs(home, f, 2) # {} THEN Some(Least(SpackDirs(home, f, 2)))
    ELSE None

\* whether find_spack_gdal_path runs the spack command
SpackQueried(home, f) == Exists(f, SpackRoot(home))

\* find_spack_gdal_path
FindSpackGdalPath(home, f, cmd) ==
    IF SpackQueried(home, f) /\ QueryPath(cmd, f).some
    THEN QueryPath(cmd, f)
    ELSE SpackGlob(home, f)

\* TryRoot without the `return` after configure_gdal_paths: the next
\* strategy is still tried
TryRootNoReturn(found, before, next, noneLines) ==
    IF found.some /\ LibraryFound(found.val, fs)
    THEN /\ ConfigureGdalPaths(before, <<>>, found.val, found.val \o LibSuffix,
                               found.val \o IncludeSuffix, found.val \o LibGdalSo)
         /\ pc' = next
    ELSE /\ out' = out \o (IF found.some
                           THEN <<Warning2("GDAL library not found at",
                                           found.val \o LibGdalSo)>>
                           ELSE noneLines)
         /\ calls' = calls \o before
         /\ env' = env
         /\ pc' = next

\* One `if let Some(gdal_root) = gdal_path { ... }` block of
\* configure_linux_gdal: accept the root when its library file exists, and
\* otherwise warn and go on at `next`; noneLines is what a None prints.
TryRoot(found, before, next, noneLines) ==
    IF found.some /\ LibraryFound(found.val, fs)
    THEN /\ ConfigureGdalPaths(before, <<>>, found.val, found.val \o LibSuffix,
                               found.val \o IncludeSuffix, found.val \o LibGdalSo)
         /\ pc' = "copy_gdal_libraries"
    ELSE /\ out' = out \o (IF found.some
                           THEN <<Warning2("GDAL library not found at",
                                           found.val \o LibGdalSo)>>
                           ELSE noneLines)
         /\ calls' = calls \o before
         /\ env' = env
         /\ pc' = next

\* configure_linux_gdal reading HOME with expect(): a missing HOME panics
ConfigureLinuxGdalExpect ==
    /\ pc = "configure_linux_gdal"
    /\ pc' = IF EnvVar(env, "HOME").some THEN "system" ELSE "panicked"
    /\ calls' = calls \o << <<"configure_linux_gdal">> >>
    /\ UNCHANGED <<windows, env, fs, pkgConfig, spackCmd, out, entries, ret>>

ConfigureLinuxGdal ==
    /\ pc = "configure_linux_gdal"
    /\ IF EnvVar(env, "HOME").some
       THEN /\ pc' = "system"
            /\ out' = out
       ELSE /\ pc' = "copy_gdal_libraries"
            /\ out' = out \o <<Warning1("HOME environment variable not found")>>
    /\ calls' = calls \o << <<"configure_linux_gdal">> >>
    /\ UNCHANGED <<windows, env, fs, pkgConfig, spackCmd, entries, ret>>

TrySystem ==
    /\ pc = "system"
    /\ \E found \in {FindSystemGdalPath(pkgConfig, fs)} :
       TryRoot(found,
               << <<"find_system_gdal_path">>, <<"pkg-config">> >>,
               "pixi", <<>>)
    /\ UNCHANGED <<windows, fs, pkgConfig, spackCmd, entries, ret>>

TryPixi ==
    /\ pc = "pixi"
    /\ \E listing \in ReadDir(fs, PixiEnvsDir(env["HOME"])) :
       \E found \in {FindPixiGdalPath(env["HOME"], fs, listing)} :
         TryRoot(found,
                 << <<"find_pixi_gdal_path", listing>> >>
                 \o (IF listing.some
                     THEN [i \in 1..Len(PixiVisited(listing.val, fs)) |->
                             <<"exists", GdalInfoOf(PixiVisited(listing.val, fs)[i])>>]
                     ELSE <<>>)
                 \o (IF PixiScan(listing, fs).some THEN <<>>
                     ELSE << <<"glob", PixiPattern(env["HOME"])>> >>),
                 "spack", <<>>)
    /\ UNCHANGED <<windows, fs, pkgConfig, spackCmd, entries, ret>>

TrySpack ==
    /\ pc = "spack"
    /\ \E found \in {FindSpackGdalPath(env["HOME"], fs, spackCmd)} :
       TryRoot(found,
               << <<"find_spack_gdal_path">> >>
               \o (IF SpackQueried(env["HOME"], fs) THEN << <<"spack">> >> ELSE <<>>)
               \o (IF SpackQueried(env["HOME"], fs) /\ QueryPath(spackCmd, fs).some
                   THEN <<>>
                   ELSE << <<"glob", SpackPatterns(env["HOME"])[1]>>,
                           <<"glob", SpackPatterns(env["HOME"])[2]>> >>),
               "copy_gdal_libraries",
               <<Warning1("GDAL installation not found via system, pixi, or spack")>>)
    /\ UNCHANGED <<windows, fs, pkgConfig, spackCmd, entries, ret>>

----------------------------------------------------------------------------
(* configure_windows_gdal *)
PixiGdalRoot(userprofile) ==
    userprofile \o <<"\\", ".", "pixi", "\\", "envs", "\\", "gdal", "\\", "Library">>
PixiLibDir(userprofile) == PixiGdalRoot(userprofile) \o <<"\\", "lib">>
PixiIncludeDir(userprofile) == PixiGdalRoot(userprofile) \o <<"\\", "include">>
GdalLibFile(userprofile) == PixiLibDir(userprofile) \o <<"\\", "gdal", ".", "lib">>
GdalILibFile(userprofile) == PixiLibDir(userprofile) \o <<"\\", "gdal_i", ".", "lib">>
GdalDllLibFile(userprofile) ==
    PixiLibDir(userprofile) \o <<"\\", "gdal", ".", "dll", ".", "lib">>

\* CreateAlias creating an empty file instead of copying gdal.lib
CreateAliasEmpty(f, gdal_lib_file, alias, ok) ==
    IF ~Exists(f, alias) /\ ok
    THEN [p \in DOMAIN f \cup {alias} |-> IF p = alias THEN <<"bytes", "">> ELSE f[p]]
    ELSE f

\* `if !Path::new(&alias).exists() { match fs::copy(&gdal_lib_file, &alias) }`:
\* the filesystem afterwards, ok being whether the copy succeeds
CreateAlias(f, gdal_lib_file, alias, ok) ==
    IF ~Exists(f, alias) /\ ok THEN CopyFile(f, gdal_lib_file, alias) ELSE f

\* what that block prints and logs
AliasLines(f, alias, name, ok) ==
    IF Exists(f, alias) THEN <<>>
    ELSE IF ok THEN <<Warning2("Created from gdal.lib for compatibility", name)>>
    ELSE <<Warning2("Failed to create", name)>>

AliasCalls(f, gdal_lib_file, alias, ok) ==
    IF Exists(f, alias) THEN <<>>
    ELSE << <<"fs::copy", gdal_lib_file, alias, ok>> >>

\* WindowsLibraryFound looking for gdal_i.lib instead of gdal.lib
WindowsLibraryFoundAlias(userprofile, f) == Exists(f, GdalILibFile(userprofile))

\* whether configure_windows_gdal accepts the profile's library tree
WindowsLibraryFound(userprofile, f) == Exists(f, GdalLibFile(userprofile))

ConfigureWindowsGdal ==
    /\ pc = "configure_windows_gdal"
    /\ pc' = "copy_gdal_libraries"
    /\ IF EnvVar(env, "USERPROFILE").some
       THEN LET up == env["USERPROFILE"] IN
            IF WindowsLibraryFound(up, fs)
            THEN \E ok1, ok2 \in BOOLEAN :
                   LET f1 == CreateAlias(fs, GdalLibFile(up), GdalILibFile(up), ok1)
                       f2 == CreateAlias(f1, GdalLibFile(up), GdalDllLibFile(up), ok2)
                   IN  /\ (ok1 \/ ok2) => Copyable(fs, GdalLibFile(up))
                       /\ fs' = f2
                       /\ ConfigureGdalPaths(
                            << <<"configure_windows_gdal">> >>
                            \o AliasCalls(fs, GdalLibFile(up), GdalILibFile(up), ok1)
                            \o AliasCalls(f1, GdalLibFile(up), GdalDllLibFile(up), ok2),
                            AliasLines(fs, GdalILibFile(up), "gdal_i.lib", ok1)
                            \o AliasLines(f1, GdalDllLibFile(up), "gdal.dll.lib", ok2),
                            PixiGdalRoot(up), PixiLibDir(up), PixiIncludeDir(up),
                            GdalLibFile(up))
            ELSE /\ out' = out \o <<Warning2("GDAL.LIB NOT FOUND AT", GdalLibFile(up))>>
                 /\ calls' = calls \o << <<"configure_windows_gdal">> >>
                 /\ UNCHANGED <<env, fs>>
       ELSE /\ out' = out \o <<Warning1("USERPROFILE environment variable not found")>>
            /\ calls' = calls \o << <<"configure_windows_gdal">> >>
            /\ UNCHANGED <<env, fs>>
    /\ UNCHANGED <<windows, pkgConfig, spackCmd, entries, ret>>

----------------------------------------------------------------------------
(* copy_gdal_libraries *)
GdalLibsDir(win) ==
    IF win THEN <<"gdal-libs", "/", "windows">> ELSE <<"gdal-libs", "/", "linux">>

\* Selected filtering by extension on both platforms
SelectedByExtension(win, entry) ==
    Extension(entry).some
    /\ Extension(entry).val = IF win THEN <<"dll">> ELSE <<"so">>

\* the filter on a directory entry: extension == "dll" on Windows,
\* starts_with("lib") && contains(".so") on Linux
Selected(win, entry) ==
    IF win THEN Extension(entry).some /\ Extension(entry).val = <<"dll">>
    ELSE StartsWith(FileName(entry), <<"lib">>)
         /\ Contains(FileName(entry), <<".", "so">>)

\* Path::new(".").join(entry.file_name())
DestPath(win, entry) == <<".">> \o <<IF win THEN "\\" ELSE "/">> \o FileName(entry)

CopyGdalLibraries ==
    /\ pc = "copy_gdal_libraries"
    /\ \E listing \in ReadDir(fs, GdalLibsDir(windows)) :
         /\ calls' = calls \o << <<"copy_gdal_libraries", listing>> >>
         /\ IF Exists(fs, GdalLibsDir(windows)) /\ listing.some
            THEN entries' = listing.val /\ pc' = "copy_entry"
            ELSE entries' = entries /\ pc' = "tauri_build"
    /\ UNCHANGED <<windows, env, fs, pkgConfig, spackCmd, out, ret>>

\* one turn of `for entry in entries.flatten()`, or its end
CopyEntry ==
    /\ pc = "copy_entry"
    /\ IF entries = <<>>
       THEN pc' = "tauri_build" /\ UNCHANGED <<fs, out, calls, entries>>
       ELSE LET src == Head(entries)
                dst == DestPath(windows, src)
            IN  /\ entries' = Tail(entries)
                /\ pc' = pc
                /\ IF Selected(windows, src)
                   THEN \E ok \in BOOLEAN :
                          /\ ok => Copyable(fs, src)
                          /\ fs' = IF ok THEN CopyFile(fs, src, dst) ELSE fs
                          /\ out' = out \o <<IF ok THEN Warning2("Copied", src)
                                             ELSE Warning2("Failed to copy", src)>>
                          /\ calls' = calls \o << <<"fs::copy", src, dst, ok>> >>
                   ELSE UNCHANGED <<fs, out, calls>>
    /\ UNCHANGED <<windows, env, pkgConfig, spackCmd, ret>>

(* tauri_build::build() *)
TauriBuild ==
    /\ pc = "tauri_build"
    /\ calls' = calls \o << <<"tauri_build::build">> >>
    /\ pc' = "done"
    /\ UNCHANGED <<windows, env, fs, pkgConfig, spackCmd, out, entries, ret>>

----------------------------------------------------------------------------
(* The environments a build starts in *)
Dir == <<"dir">>
Bytes(b) == <<"bytes", b>>

HomeDir == <<"/", "home", "/", "u">>
ProfileDir == <<"C:", "\\", "Users", "\\", "u">>

\* a pkg-config prefix outside the fixed list, whose text contains "pixi"
PkgPrefix == <<"/", "opt", "/", "pixi">>
\* what `spack location -i gdal` names
SpackPrefix == <<"/", "opt", "/", "views", "/", "gdal">>
SpackStore == <<"/", "spack", "/", "opt", "/", "spack", "/", "linux", "-", "x",
                "/", "gcc", "-", "y">>
SpackPinned == HomeDir \o SpackStore \o <<"/", "gdal", "-", "3.10.3", "-", "h">>
SpackOther == HomeDir \o SpackStore \o <<"/", "gdal", "-", "3.1.0", "-", "h">>

\* a root with or without its lib/libgdal.so
RootStates(root) ==
    { {<<root, Dir>>}, {<<root, Dir>>, <<root \o LibGdalSo, Bytes("libgdal")>>} }

\* the fixed prefixes in S, each holding lib/libgdal.so, beside the
\* directories every system has
SystemFiles(S) ==
    {<<Usr, Dir>>, <<UsrLocal, Dir>>}
    \cup UNION {{<<r, Dir>>, <<r \o LibGdalSo, Bytes("libgdal")>>} : r \in S}

\* the system part: which of the fixed prefixes hold the library, and what
\* pkg-config answers
SystemEnvs ==
    { [cmd |-> c, files |-> SystemFiles(S)] :
        c \in {SpawnFailed, Ran(TRUE, Usr \o <<"\n">>)},
        S \in SUBSET {Usr, UsrLocal, OptGdal} }
    \cup
    { [cmd |-> c, files |-> SystemFiles(S)] :
        c \in {Ran(FALSE, <<>>), Ran(TRUE, <<"\n">>), Ran(TRUE, PkgPrefix \o <<"\n">>)},
        S \in {{}, {UsrLocal}} }
    \cup
    { [cmd |-> Ran(TRUE, PkgPrefix \o <<"\n">>), files |-> p \cup SystemFiles(S)] :
        p \in RootStates(PkgPrefix), S \in {{}, {UsrLocal}} }

\* one pixi environment: absent, without the marker, with it, with it and
\* the library
PixiEnvStates(name) ==
    LET root == Join(PixiEnvsDir(HomeDir), name)
    IN  { {},
          {<<root, Dir>>},
          {<<root, Dir>>, <<GdalInfoOf(root), Bytes("gdalinfo")>>},
          {<<root, Dir>>, <<GdalInfoOf(root), Bytes("gdalinfo")>>,
           <<root \o LibGdalSo, Bytes("libgdal")>>} }

PixiEnvs ==
    { {} } \cup
    { {<<PixiEnvsDir(HomeDir), Dir>>} \cup a \cup b :
        a \in PixiEnvStates(<<"dev">>), b \in PixiEnvStates(<<"gdal">>) \ {{}} }

SpackEnvs ==
    { [cmd |-> SpawnFailed, files |-> {}] } \cup
    { [cmd |-> c, files |-> {<<SpackRoot(HomeDir), Dir>>} \cup a] :
        c \in {SpawnFailed, Ran(FALSE, <<>>), Ran(TRUE, <<"\n">>)},
        a \in {{}} \cup RootStates(SpackPinned) }
    \cup
    { [cmd |-> Ran(TRUE, SpackPrefix \o <<"\n">>),
       files |-> {<<SpackRoot(HomeDir), Dir>>} \cup a \cup b] :
        a \in RootStates(SpackPinned) \cup {{}, {<<SpackPinned, Bytes("file")>>}},
        b \in {{}} \cup RootStates(SpackOther) }
    \cup
    { [cmd |-> Ran(TRUE, SpackPrefix \o <<"\n">>),
       files |-> {<<SpackRoot(HomeDir), Dir>>} \cup p \cup a] :
        p \in RootStates(SpackPrefix), a \in {{}} \cup RootStates(SpackPinned) }

\* the profile's library tree on Windows
WindowsEnvs ==
    { {} } \cup
    { {<<GdalLibFile(ProfileDir), Bytes("gdal.lib")>>} \cup a \cup b :
        a \in {{}, {<<GdalILibFile(ProfileDir), Bytes("gdal.lib")>>},
               {<<GdalILibFile(ProfileDir), Bytes("older")>>}},
        b \in {{}, {<<GdalDllLibFile(ProfileDir), Bytes("gdal.lib")>>},
               {<<GdalDllLibFile(ProfileDir), Bytes("older")>>}} }
    \cup
    { {<<GdalILibFile(ProfileDir), Bytes("older")>>} }

\* the names a bundled library directory can hold
BundledNames(win) ==
    IF win
    THEN << <<"gdal", ".", "dll">>, <<"readme", ".", "txt">>, <<"proj", ".", "dll">>,
            <<"gdal", ".", "lib">>, <<".", "dll">> >>
    ELSE << <<"lib", "gdal", ".", "so", ".", "36">>, <<"readme", ".", "txt">>,
            <<"lib", "proj", ".", "so">>, <<"gdal", ".", "so">>,
            <<"lib", "notes", ".", "txt">> >>

MaxBundled == 3

\* the bundled directory with the files named by the indices in S
BundledFiles(win, S) ==
    {<<GdalLibsDir(win), Dir>>}
    \cup {<<GdalLibsDir(win) \o <<IF win THEN "\\" ELSE "/">> \o BundledNames(win)[i],
           Bytes(BundledNames(win)[i])>> : i \in S}

\* every state of the bundled directory: missing, or holding at most
\* MaxBundled of the names, or holding a directory with a library's name
BundledEnvs(win) ==
    { {} }
    \cup {BundledFiles(win, S) :
            S \in {T \in SUBSET (1..Len(BundledNames(win))) : Cardinality(T) <= MaxBundled}}
    \cup { {<<GdalLibsDir(win), Dir>>,
            <<GdalLibsDir(win) \o <<IF win THEN "\\" ELSE "/">> \o BundledNames(win)[1],
              Dir>>} }

\* a file already staged by an earlier build
Staged(win) ==
    { {}, {<<DestPath(win, BundledNames(win)[1]), Bytes("stale")>>} }

InitCommon ==
    /\ pc = "main"
    /\ out = <<>>
    /\ calls = <<>>
    /\ entries = <<>>
    /\ ret = None

\* builds whose locator meets every environment above; the bundled
\* directory is missing or holds one library
Init ==
    /\ InitCommon
    /\ windows \in BOOLEAN
    /\ \E home \in BOOLEAN, sys \in SystemEnvs, pixi \in PixiEnvs,
          spack \in SpackEnvs, win \in WindowsEnvs,
          bundled \in {{}, BundledFiles(windows, {1})} :
         /\ ~home => (pixi = {} /\ spack.files = {} /\ win = {})
         /\ windows => (sys = [cmd |-> SpawnFailed, files |-> SystemFiles({})]
                        /\ pixi = {} /\ spack.files = {})
         /\ ~windows => win = {}
         /\ env = IF ~home THEN << >>
                  ELSE IF windows THEN [n \in {"USERPROFILE"} |-> ProfileDir]
                  ELSE [n \in {"HOME"} |-> HomeDir]
         /\ pkgConfig = sys.cmd
         /\ spackCmd = spack.cmd
         /\ fs = MkFs((IF windows THEN win ELSE sys.files \cup pixi \cup spack.files)
                      \cup bundled)

\* builds whose bundled directory meets every state above; the locator
\* meets a few environments
InitStager ==
    /\ InitCommon
    /\ windows \in BOOLEAN
    /\ pkgConfig = SpawnFailed
    /\ spackCmd = SpawnFailed
    /\ \E home \in BOOLEAN, bundled \in BundledEnvs(windows), staged \in Staged(windows),
          found \in IF windows
                    THEN {{}, {<<GdalLibFile(ProfileDir), Bytes("gdal.lib")>>}}
                    ELSE {{}, {<<Usr \o LibGdalSo, Bytes("libgdal")>>},
                          {<<SpackPinned, Dir>>,
                           <<SpackPinned \o LibGdalSo, Bytes("libgdal")>>}} :
         /\ env = IF ~home THEN << >>
                  ELSE IF windows THEN [n \in {"USERPROFILE"} |-> ProfileDir]
                  ELSE [n \in {"HOME"} |-> HomeDir]
         /\ fs = MkFs({<<Usr, Dir>>} \cup found \cup bundled \cup staged)

Next ==
    \/ Main
    \/ ConfigureWindowsGdal
    \/ ConfigureLinuxGdal
    \/ TrySystem
    \/ TryPixi
    \/ TrySpack
    \/ CopyGdalLibraries
    \/ CopyEntry
    \/ TauriBuild

Spec == Init /\ [][Next]_vars

SpecStager == InitStager /\ [][Next]_vars

----------------------------------------------------------------------------
(* The application: src/lib.rs *)
Ok(v) == [ok |-> TRUE, val |-> v]
Err(m) == [ok |-> FALSE, err |-> m]

\* the separator of a path list: ';' on Windows, ':' elsewhere
ListSep(win) == IF win THEN ";" ELSE ":"

\* env::split_paths
RECURSIVE SplitPaths(_, _)
SplitPaths(s, sep) ==
    IF Positions(s, sep) = {} THEN <<s>>
    ELSE LET i == CHOOSE k \in Positions(s, sep) : \A j \in Positions(s, sep) : k <= j
         IN  <<SubSeq(s, 1, i - 1)>> \o SplitPaths(SubSeq(s, i + 1, Len(s)), sep)

RECURSIVE JoinAll(_, _)
JoinAll(paths, sep) ==
    IF Len(paths) = 1 THEN paths[1]
    ELSE paths[1] \o <<sep>> \o JoinAll(Tail(paths), sep)

\* env::join_paths: an error when a path holds the separator (Unix) or a
\* double quote (Windows)
JoinPaths(paths, win) ==
    IF \E i \in 1..Len(paths) :
          Positions(paths[i], IF win THEN "\"" ELSE ":") # {}
    THEN None
    ELSE Some(JoinAll(paths, ListSep(win)))

\* the variable setup_gdal_runtime extends
RuntimeVar(win) == IF win THEN "PATH" ELSE "LD_LIBRARY_PATH"

\* setup_gdal_runtime; cwd is env::current_dir()
SetupGdalRuntime(e, win, cwd) ==
    IF ~cwd.some THEN e
    ELSE IF EnvVar(e, RuntimeVar(win)).some
    THEN LET joined == JoinPaths(<<cwd.val>> \o SplitPaths(e[RuntimeVar(win)], ListSep(win)),
                                 win)
         IN  IF joined.some THEN SetVar(e, RuntimeVar(win), joined.val) ELSE e
    ELSE IF win THEN e
    ELSE SetVar(e, "LD_LIBRARY_PATH", cwd.val)

\* what env::current_dir() can give
CurrentDirs(win) ==
    {None} \cup IF win THEN {Some(<<"C:", "\\", "app">>)}
                ELSE {Some(<<"/", "app">>), Some(<<"/", "mnt", "/", "a", ":", "b">>)}

\* whether Dataset::open succeeds on what the path holds
Opens(f, path) == Exists(f, path) /\ f[path][1] = "raster"

\* the DatasetInfo read from an open dataset
DatasetInfoOf(content) ==
    [size_x |-> content[2], size_y |-> content[3], projection |-> content[4],
     band_count |-> content[5], driver_name |-> content[6]]

\* PassesExistenceCheck without the check
PassesExistenceCheckAlways(f, file_path) == TRUE

\* whether get_dataset_info goes on to Dataset::open: `if !path.exists()` did
\* not return
PassesExistenceCheck(f, file_path) == Exists(f, file_path)

MaxCalls == 2

Invocations == Len(SelectSeq(calls, LAMBDA c : c[1] = "get_dataset_info"))

\* run(): the runtime is set up before the commands are served
Run ==
    /\ pc = "run"
    /\ \E cwd \in CurrentDirs(windows) : env' = SetupGdalRuntime(env, windows, cwd)
    /\ pc' = "serving"
    /\ UNCHANGED <<windows, fs, pkgConfig, spackCmd, out, calls, entries, ret>>

GetDatasetInfo(file_path) ==
    /\ pc = "serving"
    /\ Invocations < MaxCalls
    /\ \E cwd \in CurrentDirs(windows) : env' = SetupGdalRuntime(env, windows, cwd)
    /\ IF ~PassesExistenceCheck(fs, file_path)
       THEN /\ ret' = Err(<<"File not found: ">> \o file_path)
            /\ calls' = calls \o << <<"get_dataset_info", file_path>> >>
       ELSE /\ calls' = calls \o << <<"get_dataset_info", file_path>>,
                                    <<"Dataset::open", file_path>> >>
            /\ ret' = IF Opens(fs, file_path)
                      THEN Ok(DatasetInfoOf(fs[file_path]))
                      ELSE Err(<<"GDAL error">>)
    /\ UNCHANGED <<pc, windows, fs, pkgConfig, spackCmd, out, entries>>

RasterA == <<"/", "data", "/", "a", ".", "tif">>
RasterB == <<"/", "data", "/", "b", ".", "tif">>
FilePaths == {RasterA, RasterB}

\* what a path of the application's filesystem can hold
FileStates(path) ==
    { {}, {<<path, Dir>>}, {<<path, Bytes("junk")>>},
      {<<path, <<"raster", 512, 256, "EPSG:4326", 3, "GeoTIFF">> >>} }

InitApp ==
    /\ pc = "run"
    /\ windows \in BOOLEAN
    /\ pkgConfig = SpawnFailed
    /\ spackCmd = SpawnFailed
    /\ out = <<>>
    /\ calls = <<>>
    /\ entries = <<>>
    /\ ret = None
    /\ env \in {<< >>, [n \in {RuntimeVar(windows)} |-> <<"/", "opt", "/", "lib">>]}
    /\ \E a \in FileStates(RasterA), b \in FileStates(RasterB) :
         fs = MkFs({<<Usr, Dir>>} \cup a \cup b)

NextApp ==
    \/ Run
    \/ \E file_path \in FilePaths : GetDatasetInfo(file_path)

SpecApp == InitApp /\ [][NextApp]_vars

----------------------------------------------------------------------------
(* Properties *)

LocatorDone == pc \in {"copy_gdal_libraries", "copy_entry", "tauri_build", "done"}

Has(name) == \E i \in 1..Len(calls) : calls[i][1] = name
First(name) == CHOOSE i \in 1..Len(calls) :
                  calls[i][1] = name /\ \A j \in 1..(i - 1) : calls[j][1] # name
Count(name) == Len(SelectSeq(calls, LAMBDA c : c[1] = name))

\* the accepted DiscoveryResults: the calls of configure_gdal_paths
Accepts == SelectSeq(calls, LAMBDA c : c[1] = "configure_gdal_paths")

\* the DiscoveryResult of a Linux root
LinuxResult(root) ==
    <<"configure_gdal_paths", root, root \o <<"/", "lib">>,
      root \o <<"/", "include">>, root \o <<"/", "lib", "/", "libgdal", ".", "so">> >>

\* the DiscoveryResult of the Windows profile
WindowsResult(up) ==
    LET root == up \o <<"\\", ".", "pixi", "\\", "envs", "\\", "gdal", "\\", "Library">>
    IN  <<"configure_gdal_paths", root, root \o <<"\\", "lib">>,
          root \o <<"\\", "include">>, root \o <<"\\", "lib", "\\", "gdal", ".", "lib">> >>

\* the candidate root holds lib/libgdal.so
HoldsLibrary(cand) ==
    cand.some /\ (cand.val \o <<"/", "lib", "/", "libgdal", ".", "so">>) \in DOMAIN fs

\* the candidate root of each Linux strategy in this environment; the pixi
\* one follows the directory listing the strategy was given
SystemCandidate == FindSystemGdalPath(pkgConfig, fs)
PixiCandidate ==
    IF Has("find_pixi_gdal_path")
    THEN FindPixiGdalPath(env["HOME"], fs, calls[First("find_pixi_gdal_path")][2])
    ELSE None
SpackCandidate ==
    IF "HOME" \in DOMAIN env THEN FindSpackGdalPath(env["HOME"], fs, spackCmd) ELSE None

\* the candidate of the highest-priority strategy whose root holds the library
BestCandidate ==
    IF HoldsLibrary(SystemCandidate) THEN SystemCandidate
    ELSE IF HoldsLibrary(PixiCandidate) THEN PixiCandidate
    ELSE IF HoldsLibrary(SpackCandidate) THEN SpackCandidate
    ELSE None

\* what the locator should have accepted on Windows
WindowsExpected ==
    IF "USERPROFILE" \in DOMAIN env
       /\ (env["USERPROFILE"] \o <<"\\", ".", "pixi", "\\", "envs", "\\", "gdal", "\\",
                                   "Library", "\\", "lib", "\\", "gdal", ".", "lib">>)
          \in DOMAIN fs
    THEN <<WindowsResult(env["USERPROFILE"])>>
    ELSE <<>>

\* C1 as stated: in every environment at most one DiscoveryResult is
\* accepted, it is that of the highest-priority strategy whose candidate root
\* holds the library file, and one is accepted whenever some strategy's
\* candidate root holds it.
C1_AcceptsBestInEveryEnvironment ==
    /\ Len(Accepts) <= 1
    /\ LocatorDone =>
         Accepts = IF windows THEN WindowsExpected
                   ELSE IF BestCandidate.some THEN <<LinuxResult(BestCandidate.val)>>
                   ELSE <<>>

\* C1 amended: the same, on Linux only when HOME is set; when HOME is unset
\* no strategy is attempted and nothing is accepted.
C1_AcceptsBestWhenHomeSet ==
    /\ Len(Accepts) <= 1
    /\ LocatorDone =>
         Accepts = IF windows THEN WindowsExpected
                   ELSE IF "HOME" \in DOMAIN env /\ BestCandidate.some
                        THEN <<LinuxResult(BestCandidate.val)>>
                        ELSE <<>>
    /\ (LocatorDone /\ ~windows /\ "HOME" \notin DOMAIN env) =>
         ~Has("find_system_gdal_path")

\* C1 witness: the pixi strategy's root was accepted after the system
\* strategy yielded a root that does not hold the library
C1_Witness ==
    /\ pc = "done"
    /\ ~windows
    /\ SystemCandidate.some
    /\ ~HoldsLibrary(SystemCandidate)
    /\ PixiCandidate.some
    /\ Accepts = <<LinuxResult(PixiCandidate.val)>>

\* C2 as stated: when the pkg-config query is unavailable, or the prefix it
\* returns lacks lib/libgdal.so, the system strategy yields the first of /usr,
\* /usr/local, /opt/gdal whose lib/libgdal.so exists (and, holding the
\* library, that root is accepted).
C2_FallsBackToFixedPrefixes ==
    LET prefix == Trim(pkgConfig.stdout)
        unavailable == ~pkgConfig.spawned \/ ~pkgConfig.success
        lacks == (prefix \o <<"/", "lib", "/", "libgdal", ".", "so">>) \notin DOMAIN fs
        fixed == << <<"/", "usr">>, <<"/", "usr", "/", "local">>, <<"/", "opt", "/", "gdal">> >>
        hits == {i \in 1..3 : (fixed[i] \o <<"/", "lib", "/", "libgdal", ".", "so">>)
                                \in DOMAIN fs}
    IN  (Has("find_system_gdal_path") /\ pc # "system"
         /\ (unavailable \/ lacks) /\ hits # {})
        => Accepts = <<LinuxResult(fixed[CHOOSE i \in hits : \A j \in hits : i <= j])>>

\* the cargo directives printed so far: every line but the warnings and
\* rerun-if-changed
Directives ==
    SelectSeq(out, LAMBDA l : l[1] \notin {"cargo:warning", "cargo:rerun-if-changed"})

\* the lib/libgdal.so files of the filesystem
LibraryFiles ==
    {p \in DOMAIN fs :
        Len(p) > 6 /\ SubSeq(p, Len(p) - 5, Len(p)) = <<"/", "lib", "/", "libgdal", ".", "so">>}

\* only the third strategy's root holds a library file
OnlySpackHoldsLibrary ==
    /\ ~windows
    /\ "HOME" \in DOMAIN env
    /\ SpackCandidate.some
    /\ LibraryFiles = {SpackCandidate.val \o <<"/", "lib", "/", "libgdal", ".", "so">>}

\* C3: the Linux strategies run in the order system, pixi (directory scan,
\* then glob), spack (locate command, then glob); each runs at most once and
\* only after every earlier one ran without being accepted; after an
\* acceptance no strategy, subprocess, probe or glob runs.  When only the
\* third strategy's root holds the library, the first two have run, every
\* directive and variable comes from the third root, and it is the accepted one.
C3_StrategiesInOrder ==
    /\ Count("find_system_gdal_path") <= 1
    /\ Count("find_pixi_gdal_path") <= 1
    /\ Count("find_spack_gdal_path") <= 1
    /\ Has("find_system_gdal_path") <=> (~windows /\ pc \notin {"main", "configure_linux_gdal", "system"}
                                         /\ "HOME" \in DOMAIN env)
    /\ Has("find_pixi_gdal_path") =>
         /\ Has("find_system_gdal_path")
         /\ First("find_system_gdal_path") < First("find_pixi_gdal_path")
         /\ \A i \in 1..First("find_pixi_gdal_path") : calls[i][1] # "configure_gdal_paths"
    /\ Has("find_spack_gdal_path") =>
         /\ Has("find_pixi_gdal_path")
         /\ First("find_pixi_gdal_path") < First("find_spack_gdal_path")
         /\ \A i \in 1..First("find_spack_gdal_path") : calls[i][1] # "configure_gdal_paths"
    /\ \A i, j \in 1..Len(calls) :
         (i < j /\ calls[i][1] = "configure_gdal_paths" /\ ~windows)
         => calls[j][1] \notin {"find_system_gdal_path", "find_pixi_gdal_path",
                                "find_spack_gdal_path", "pkg-config", "spack",
                                "exists", "glob", "configure_gdal_paths"}
    /\ \A i, j \in 1..Len(calls) :
         (i < j /\ calls[i][1] = "glob" /\ calls[j][1] \in {"exists", "spack"})
         => (Has("find_spack_gdal_path")
             /\ i < First("find_spack_gdal_path") /\ First("find_spack_gdal_path") < j)
    /\ \A i \in 1..Len(calls) :
         /\ calls[i][1] = "exists" => (Has("find_pixi_gdal_path") /\ First("find_pixi_gdal_path") < i)
         /\ calls[i][1] = "spack" => (Has("find_spack_gdal_path") /\ First("find_spack_gdal_path") < i)
    /\ (LocatorDone /\ OnlySpackHoldsLibrary) =>
         /\ Has("find_system_gdal_path")
         /\ Has("find_pixi_gdal_path")
         /\ Accepts = <<LinuxResult(SpackCandidate.val)>>
         /\ env["GDAL_ROOT"] = SpackCandidate.val
         /\ \A i \in 1..Len(Directives) :
              \/ Directives[i][1] = "cargo:rustc-link-lib"
              \/ StartsWith(Directives[i][Len(Directives[i])], SpackCandidate.val)
         /\ \A i \in 1..Len(out) :
              out[i][1] \notin {"cargo:warning", "cargo:rerun-if-changed"}
              => \A j \in 1..i : out[j][1] = "cargo:warning" =>
                    out[j][2] # "GDAL installation not found via system, pixi, or spack"

\* C3 witness: only the spack root holds the library, the system strategy
\* yielded a root without it, and the spack root was accepted
C3_Witness ==
    /\ pc = "done"
    /\ OnlySpackHoldsLibrary
    /\ SystemCandidate.some
    /\ PixiCandidate.some
    /\ Has("spack")
    /\ Accepts = <<LinuxResult(SpackCandidate.val)>>

BuildPositions ==
    {"main", "configure_windows_gdal", "configure_linux_gdal", "system", "pixi", "spack",
     "copy_gdal_libraries", "copy_entry", "tauri_build", "done"}

DiscoveryDiagnostics ==
    {"GDAL library not found at",
     "GDAL installation not found via system, pixi, or spack",
     "HOME environment variable not found",
     "GDAL.LIB NOT FOUND AT",
     "USERPROFILE environment variable not found"}

GdalVars == {"GDAL_ROOT", "GDAL_HOME", "GDAL_LIB_DIR", "GDAL_INCLUDE_DIR"}

\* C4: the build never stops before its end: in every environment each
\* position short of the end has a next step, the staging step runs before
\* the Tauri build step and both have run at the end; when the locator
\* finished without accepting a result, no GDAL variable is set, no
\* directive was printed and a discovery diagnostic was.
C4_NeverHardFails ==
    /\ pc \in BuildPositions
    /\ pc # "done" => ENABLED Next
    /\ Has("tauri_build::build") =>
         (Has("copy_gdal_libraries") /\ First("copy_gdal_libraries") < First("tauri_build::build"))
    /\ pc = "done" => Has("tauri_build::build")
    /\ (LocatorDone /\ Accepts = <<>>) =>
         /\ DOMAIN env \cap GdalVars = {}
         /\ Directives = <<>>
         /\ \E i \in 1..Len(out) :
              out[i][1] = "cargo:warning" /\ out[i][2] \in DiscoveryDiagnostics

\* C4 witness: a finished Linux build in which HOME is set, neither
\* subprocess could be started and no strategy was accepted
C4_Witness ==
    /\ pc = "done"
    /\ ~windows
    /\ "HOME" \in DOMAIN env
    /\ ~pkgConfig.spawned
    /\ ~spackCmd.spawned
    /\ Has("find_spack_gdal_path")
    /\ Accepts = <<>>

\* the files of the Windows profile's library directory
ProfileLib(name) ==
    env["USERPROFILE"] \o <<"\\", ".", "pixi", "\\", "envs", "\\", "gdal", "\\",
                            "Library", "\\", "lib", "\\">> \o name
PrimaryLib == ProfileLib(<<"gdal", ".", "lib">>)
Aliases ==
    IF "USERPROFILE" \in DOMAIN env
    THEN {ProfileLib(<<"gdal_i", ".", "lib">>), ProfileLib(<<"gdal", ".", "dll", ".", "lib">>)}
    ELSE {}

\* the copies of gdal.lib the locator attempted: <<alias, succeeded>>
AliasCopies ==
    {<<calls[i][3], calls[i][4]>> : i \in {j \in 1..Len(calls) :
        calls[j][1] = "fs::copy" /\ calls[j][3] \in Aliases}}

\* neither alias existed when the locator ran: it attempted a copy to each
NeitherAliasExisted ==
    /\ windows
    /\ LocatorDone
    /\ Accepts # <<>>
    /\ Aliases # {}
    /\ {c[1] : c \in AliasCopies} = Aliases

\* C5 as stated: when the profile's library tree held gdal.lib and neither
\* gdal_i.lib nor gdal.dll.lib, after the locator ran both exist and are
\* byte-identical to gdal.lib.
C5_BothAliasesCreated ==
    NeitherAliasExisted =>
      \A a \in Aliases : a \in DOMAIN fs /\ fs[a] = fs[PrimaryLib]

\* C5 amended: in that case each alias whose copy succeeded exists and is
\* byte-identical to gdal.lib, and each alias whose copy failed is absent
\* and reported by a "Failed to create" warning; the result is accepted
\* either way.
C5_AliasesCreatedUnlessCopyFails ==
    NeitherAliasExisted =>
      /\ \A c \in AliasCopies :
           IF c[2] THEN c[1] \in DOMAIN fs /\ fs[c[1]] = fs[PrimaryLib]
           ELSE c[1] \notin DOMAIN fs
      /\ \A a \in Aliases : Cardinality({c \in AliasCopies : c[1] = a}) = 1
      /\ Cardinality({c \in AliasCopies : ~c[2]})
           = Len(SelectSeq(out, LAMBDA l : l[1] = "cargo:warning" /\ l[2] = "Failed to create"))
      /\ Accepts = <<WindowsResult(env["USERPROFILE"])>>

\* C5 witness: both copies were attempted and both succeeded
C5_Witness ==
    /\ NeitherAliasExisted
    /\ pc = "done"
    /\ \A c \in AliasCopies : c[2]
    /\ \A a \in Aliases : a \in DOMAIN fs

\* the lines of seq whose first element is kind
Lines(seq, kind) == SelectSeq(seq, LAMBDA l : l[1] = kind)

\* C8: on Windows the step of the locator accepts a result and prints the
\* linkage directives if and only if USERPROFILE is set and gdal.lib exists
\* under the profile's pixi tree.  When it does, every failed alias copy is
\* reported by a warning and the directives are printed all the same, the
\* link name being gdal_i; when it does not, the step prints one warning and
\* nothing else, creates no file, sets no variable and accepts nothing.  No
\* other step on Windows accepts a result or prints a directive.
C8_WindowsAcceptsIffPrimaryLibrary ==
    [][ windows =>
          IF pc = "configure_windows_gdal"
          THEN IF "USERPROFILE" \in DOMAIN env /\ PrimaryLib \in DOMAIN fs
               THEN /\ Accepts' = <<WindowsResult(env["USERPROFILE"])>>
                    /\ Lines(Directives', "cargo:rustc-link-lib")
                         = << <<"cargo:rustc-link-lib", "dylib", "gdal_i">> >>
                    /\ Len(Lines(Directives', "cargo:rustc-link-search")) >= 1
                    /\ Len(Lines(Directives', "cargo:rustc-link-arg")) = 1
                    /\ Cardinality({c \in AliasCopies' : ~c[2]})
                         = Len(SelectSeq(out', LAMBDA l : l[1] = "cargo:warning"
                                                          /\ l[2] = "Failed to create"))
                    /\ \A c \in AliasCopies' : ~c[2] => c[1] \notin DOMAIN fs'
                    /\ pc' = "copy_gdal_libraries"
               ELSE /\ fs' = fs
                    /\ env' = env
                    /\ calls' = calls \o << <<"configure_windows_gdal">> >>
                    /\ Len(out') = Len(out) + 1
                    /\ out'[Len(out')][1] = "cargo:warning"
                    /\ out'[Len(out')][2] \in DiscoveryDiagnostics
                    /\ pc' = "copy_gdal_libraries"
          ELSE /\ Accepts' = Accepts
               /\ Directives' = Directives
               /\ AliasCopies' = AliasCopies
               /\ (DOMAIN fs' \ DOMAIN fs) \cap Aliases = {}
    ]_vars

\* C8 witness: gdal.lib existed, both alias copies failed, and the result
\* was accepted with the link name gdal_i
C8_Witness ==
    /\ windows
    /\ pc = "done"
    /\ "USERPROFILE" \in DOMAIN env
    /\ AliasCopies = {<<a, FALSE>> : a \in Aliases}
    /\ Accepts = <<WindowsResult(env["USERPROFILE"])>>
    /\ Lines(Directives, "cargo:rustc-link-lib")
         = << <<"cargo:rustc-link-lib", "dylib", "gdal_i">> >>

\* the separator of the platform's paths
PathSep == IF windows THEN "\\" ELSE "/"

\* whether the token "pixi" occurs in a root
HasPixiMarker(root) == \E i \in 1..Len(root) : root[i] = "pixi"

\* C9: once a DiscoveryResult is accepted, the variables and the directives
\* all come from it: GDAL_ROOT and GDAL_HOME are its root, GDAL_LIB_DIR is
\* root/lib and GDAL_INCLUDE_DIR is root/include, in the process
\* environment and in the rustc-env lines alike; there is exactly one
\* link-lib directive (gdal_i on Windows, gdal on Linux) and exactly one
\* link-arg, the library file under root/lib; the link-search directive for
\* root/lib is printed twice when the root holds "pixi" and once otherwise.
C9_EmissionFromOneResult ==
    Accepts # <<>> =>
      LET root == Accepts[1][2]
          lib == root \o <<PathSep, "lib">>
          include == root \o <<PathSep, "include">>
          file == lib \o <<PathSep>> \o (IF windows THEN <<"gdal", ".", "lib">>
                                         ELSE <<"libgdal", ".", "so">>)
      IN  /\ Len(Accepts) = 1
          /\ Accepts[1] = <<"configure_gdal_paths", root, lib, include, file>>
          /\ [v \in GdalVars |-> env[v]]
               = [v \in GdalVars |-> IF v \in {"GDAL_ROOT", "GDAL_HOME"} THEN root
                                     ELSE IF v = "GDAL_LIB_DIR" THEN lib ELSE include]
          /\ Lines(Directives, "cargo:rustc-env")
               = << <<"cargo:rustc-env", "GDAL_ROOT", root>>,
                    <<"cargo:rustc-env", "GDAL_HOME", root>>,
                    <<"cargo:rustc-env", "GDAL_LIB_DIR", lib>>,
                    <<"cargo:rustc-env", "GDAL_INCLUDE_DIR", include>> >>
          /\ Lines(Directives, "cargo:rustc-link-lib")
               = << IF windows THEN <<"cargo:rustc-link-lib", "dylib", "gdal_i">>
                    ELSE <<"cargo:rustc-link-lib", "", "gdal">> >>
          /\ Lines(Directives, "cargo:rustc-link-arg")
               = << <<"cargo:rustc-link-arg", file>> >>
          /\ Lines(Directives, "cargo:rustc-link-search")
               = [i \in 1..(IF HasPixiMarker(root) THEN 2 ELSE 1) |->
                    <<"cargo:rustc-link-search", "native", lib>>]
          /\ Len(Directives) = IF HasPixiMarker(root) THEN 8 ELSE 7

\* C9 witness: a finished Linux build that accepted the system root
\* /opt/pixi, whose lib directory was printed as a search path twice
C9_Witness ==
    /\ pc = "done"
    /\ ~windows
    /\ Accepts = <<LinuxResult(<<"/", "opt", "/", "pixi">>)>>
    /\ Len(Lines(Directives, "cargo:rustc-link-search")) = 2

\* the directory listing the pixi strategy was given
PixiListing == calls[First("find_pixi_gdal_path")][2]

\* the bin/gdalinfo of a pixi environment
Marker(envRoot) == envRoot \o <<"/", "bin", "/", "gdalinfo">>

\* the positions of the listing whose environment has the marker
Marked ==
    IF PixiListing.some
    THEN {i \in 1..Len(PixiListing.val) : Marker(PixiListing.val[i]) \in DOMAIN fs}
    ELSE {}

FirstMarked == CHOOSE i \in Marked : \A j \in Marked : i <= j

\* the events of the pixi strategy: those after find_pixi_gdal_path and
\* before find_spack_gdal_path or configure_gdal_paths
PixiEvents ==
    LET start == First("find_pixi_gdal_path")
        later == {j \in (start + 1)..Len(calls) :
                     calls[j][1] \in {"find_spack_gdal_path", "configure_gdal_paths"}}
        stop == IF later = {} THEN Len(calls) + 1
                ELSE CHOOSE j \in later : \A k \in later : j <= k
    IN  SubSeq(calls, start + 1, stop - 1)

\* C10: the pixi strategy probes the listed environments in iteration order
\* up to the first that has bin/gdalinfo and no further; that environment is
\* its only candidate: it is accepted when it holds lib/libgdal.so, and
\* otherwise no pixi environment is accepted and the spack strategy is next.
\* The glob runs exactly when the scan found no environment with the marker.
C10_FirstMarkedEnvironmentOnly ==
    (Has("find_pixi_gdal_path") /\ pc # "pixi") =>
      IF Marked # {}
      THEN LET first == PixiListing.val[FirstMarked] IN
           /\ PixiEvents = [i \in 1..FirstMarked |-> <<"exists", Marker(PixiListing.val[i])>>]
           /\ IF (first \o <<"/", "lib", "/", "libgdal", ".", "so">>) \in DOMAIN fs
              THEN Accepts = <<LinuxResult(first)>>
              ELSE /\ pc = "spack" \/ Has("find_spack_gdal_path")
                   /\ \A i \in 1..Len(PixiListing.val) :
                        \A j \in 1..Len(Accepts) : Accepts[j][2] # PixiListing.val[i]
      ELSE PixiEvents =
             (IF PixiListing.some
              THEN [i \in 1..Len(PixiListing.val) |-> <<"exists", Marker(PixiListing.val[i])>>]
              ELSE <<>>)
             \o << <<"glob", env["HOME"] \o <<"/", ".", "pixi", "/", "envs", "/", "*", "/",
                                              "bin", "/", "gdalinfo">> >> >>

\* C10 witness: the first listed environment has the marker but not the
\* library, a later one has both, and the build ended with the spack
\* strategy tried and no pixi environment accepted
C10_Witness ==
    /\ pc = "done"
    /\ Has("find_pixi_gdal_path")
    /\ Marked # {}
    /\ FirstMarked = 1
    /\ (PixiListing.val[1] \o <<"/", "lib", "/", "libgdal", ".", "so">>) \notin DOMAIN fs
    /\ \E i \in Marked :
         (PixiListing.val[i] \o <<"/", "lib", "/", "libgdal", ".", "so">>) \in DOMAIN fs
    /\ Has("find_spack_gdal_path")
    /\ Accepts = <<>>

\* the bundled directory of the platform and the entries under it
BundledDir == IF windows THEN <<"gdal-libs", "/", "windows">> ELSE <<"gdal-libs", "/", "linux">>
InBundled(p) == Len(p) > Len(BundledDir) + 1 /\ SubSeq(p, 1, Len(BundledDir)) = BundledDir
NameOf(p) == SubSeq(p, Len(BundledDir) + 2, Len(p))

\* the platform filter on an entry's name
Matches(p) ==
    LET name == NameOf(p) IN
    IF windows
    THEN Len(name) >= 3 /\ name[Len(name) - 1] = "." /\ name[Len(name)] = "dll"
    ELSE /\ name[1] = "lib"
         /\ \E i \in 1..(Len(name) - 1) : name[i] = "." /\ name[i + 1] = "so"

\* the copies the stager attempted: <<source, destination, succeeded>>
StagerCopies ==
    SelectSeq(calls, LAMBDA c : c[1] = "fs::copy" /\ InBundled(c[2]))

StagerDone == pc \in {"tauri_build", "done"}

\* what read_dir gave the stager
StagerListing == calls[First("copy_gdal_libraries")][2]

\* what holds of the copies whatever was listed: each attempt copies an
\* entry to ./<name>; a successful one leaves the destination identical to
\* the source, and every failure is reported by one warning
CopiesAreBestEffort ==
    /\ \A i \in 1..Len(StagerCopies) :
         /\ StagerCopies[i][3] = <<".", PathSep>> \o NameOf(StagerCopies[i][2])
         /\ StagerCopies[i][4] =>
              /\ StagerCopies[i][3] \in DOMAIN fs
              /\ fs[StagerCopies[i][3]] = fs[StagerCopies[i][2]]
    /\ Len(SelectSeq(StagerCopies, LAMBDA c : ~c[4]))
         = Len(SelectSeq(out, LAMBDA l : l[1] = "cargo:warning" /\ l[2] = "Failed to copy"))
    /\ Len(SelectSeq(StagerCopies, LAMBDA c : c[4]))
         = Len(SelectSeq(out, LAMBDA l : l[1] = "cargo:warning" /\ l[2] = "Copied"))

\* a step leaves the bundled directory and its entries as they were, and
\* changes a file only by a successful copy logged in the same step
SourcesUntouched ==
    /\ \A p \in DOMAIN fs :
         (p = BundledDir \/ InBundled(p)) => (p \in DOMAIN fs' /\ fs'[p] = fs[p])
    /\ \A p \in DOMAIN fs' : InBundled(p) => p \in DOMAIN fs
    /\ (fs' # fs /\ pc = "copy_entry") =>
         /\ Len(calls') = Len(calls) + 1
         /\ calls'[Len(calls')][1] = "fs::copy"
         /\ calls'[Len(calls')][4]
         /\ \A p \in DOMAIN fs : p # calls'[Len(calls')][3] => fs'[p] = fs[p]

\* C6 as stated: when the stager is done it has attempted one copy for each
\* file of the bundled directory that matches the platform filter and for
\* nothing else; failures are only logged; sources and non-matching files
\* are untouched.
C6_CopiesEveryMatchingFile ==
    /\ [](StagerDone =>
            /\ {StagerCopies[i][2] : i \in 1..Len(StagerCopies)}
                 = {p \in DOMAIN fs : InBundled(p) /\ Matches(p)}
            /\ Len(StagerCopies) = Cardinality({p \in DOMAIN fs : InBundled(p) /\ Matches(p)})
            /\ CopiesAreBestEffort)
    /\ [][SourcesUntouched]_vars

\* C6 amended: the same for the entries read_dir listed: one attempt, in
\* listing order, for each listed entry that matches the filter and for
\* nothing else; when the bundled directory does not exist or cannot be
\* listed nothing is copied.
C6_CopiesEveryListedMatchingEntry ==
    /\ [](StagerDone =>
            /\ [i \in 1..Len(StagerCopies) |-> StagerCopies[i][2]]
                 = (IF StagerListing.some
                    THEN SelectSeq(StagerListing.val, Matches)
                    ELSE <<>>)
            /\ StagerListing.some =>
                 {StagerListing.val[i] : i \in 1..Len(StagerListing.val)}
                   = {p \in DOMAIN fs : InBundled(p)}
            /\ BundledDir \notin DOMAIN fs => ~StagerListing.some
            /\ CopiesAreBestEffort)
    /\ [][SourcesUntouched]_vars

\* C6 witness: a finished build whose bundled directory listed a file that
\* does not match and two that do; the copy of the first of these failed and
\* the copy of the second succeeded
C6_Witness ==
    /\ pc = "done"
    /\ StagerListing.some
    /\ \E i \in 1..Len(StagerListing.val) : ~Matches(StagerListing.val[i])
    /\ Len(StagerCopies) = 2
    /\ ~StagerCopies[1][4]
    /\ StagerCopies[2][4]

\* C7: a get_dataset_info call on a path that does not exist returns
\* Err("File not found: <path>") and is not followed by Dataset::open; every
\* Dataset::open follows directly the get_dataset_info call on the same
\* path, and that path exists.
C7_MissingPathNeverOpened ==
    /\ \A i \in 1..Len(calls) :
         calls[i][1] = "Dataset::open" =>
           /\ i > 1
           /\ calls[i - 1] = <<"get_dataset_info", calls[i][2]>>
           /\ calls[i][2] \in DOMAIN fs
    /\ \A i \in 1..Len(calls) :
         (calls[i][1] = "get_dataset_info" /\ calls[i][2] \notin DOMAIN fs) =>
           /\ i < Len(calls) => calls[i + 1][1] # "Dataset::open"
           /\ i = Len(calls) =>
                /\ ~ret.ok
                /\ ret.err = <<"File not found: ">> \o calls[i][2]

\* C7 witness: a call that opened an existing raster was followed by a call
\* on a missing path, which returned the error
C7_Witness ==
    /\ Len(calls) = 3
    /\ calls[2][1] = "Dataset::open"
    /\ calls[3][1] = "get_dataset_info"
    /\ calls[3][2] \notin DOMAIN fs
    /\ ~ret.ok

====
